---- MODULE Spec2Model ----
(***************************************************************************)
(* Model of email_hackers/main.py: the bulk mailer that reads a confirmed  *)
(* list and an accepted list, sends one templated message per address over *)
(* a fresh SMTP session, and logs every step to email_sender.log.          *)
(*                                                                         *)
(* Text is modelled as a sequence of one-character strings, so that the    *)
(* list loader's line splitting and stripping are computed, not assumed.   *)
(* The log is the sequence of records the root logger appended to the     *)
(* file.  Dispatcher runs (Spec) are explored with a sink that accepts     *)
(* every record; sink faults are explored in SpecSink.                     *)
(***************************************************************************)
EXTENDS Integers, Sequences, FiniteSets, TLC

VARIABLES
    argv,             \* the command line: "valid", "usage_error" or "help"
    fileConfirmed,    \* the file at args.confirmed_list
    fileAccepted,     \* the file at args.accepted_list
    parsed,           \* parser.parse_args() has returned
    confirmed_emails, \* main's local: unset, None or a list
    accepted_emails,  \* main's local: unset, None or a list
    phase,            \* position of main() in the dispatcher's phases
    ci,               \* number of confirmed addresses the first loop has consumed
    ai,               \* number of accepted addresses the second loop has consumed
    sends,            \* the send_email invocations made so far, in order
    log,              \* records appended to email_sender.log, in order
    exitStatus,       \* <<>> while the process runs, <<code>> once it has exited
    calls             \* the write_log calls a sink run has made (SpecSink)

vars == <<argv, fileConfirmed, fileAccepted, parsed, confirmed_emails,
          accepted_emails, phase, ci, ai, sends, log, exitStatus, calls>>

(***************************************************************************)
(* Bounds                                                                  *)
(***************************************************************************)
\* lines in the two list files together (dispatcher runs)
MaxLines == 3
\* lines in the two list files together (runs followed to their end)
MaxFairLines == 2
\* characters in a list file (loader runs)
MaxText == 5
\* write_log calls in a sink run
MaxCalls == 3

(***************************************************************************)
(* Text                                                                    *)
(***************************************************************************)
\* the characters str.strip() removes that can occur in the modelled files
Whitespace == {" ", "\n", "\t", "\r"}

RECURSIVE LStrip(_)
LStrip(s) ==
    IF s = <<>> THEN <<>>
    ELSE IF Head(s) \in Whitespace THEN LStrip(Tail(s)) ELSE s

RECURSIVE RStrip(_)
RStrip(s) ==
    IF s = <<>> THEN <<>>
    ELSE IF s[Len(s)] \in Whitespace THEN RStrip(SubSeq(s, 1, Len(s) - 1)) ELSE s

\* a strip that trims the left end only
Strip_LeftOnly(s) == LStrip(s)

\* str.strip()
Strip(s) == RStrip(LStrip(s))

\* index where the first line of a non-empty text ends (its "\n", or the end)
LineEnd(t) ==
    IF \E k \in 1..Len(t) : t[k] = "\n"
    THEN CHOOSE k \in 1..Len(t) : t[k] = "\n" /\ \A m \in 1..(k - 1) : t[m] # "\n"
    ELSE Len(t)

\* iterating a text file: the lines, each with its terminator
RECURSIVE FileLines(_)
FileLines(t) ==
    IF t = <<>> THEN <<>>
    ELSE <<SubSeq(t, 1, LineEnd(t))>> \o FileLines(SubSeq(t, LineEnd(t) + 1, Len(t)))

RECURSIVE Flatten(_)
Flatten(ss) == IF ss = <<>> THEN <<>> ELSE Head(ss) \o Flatten(Tail(ss))

\* a file written from a sequence of lines, one per line
WriteFile(lines) == Flatten([k \in 1..Len(lines) |-> lines[k] \o <<"\n">>])

SeqsUpTo(S, n) == UNION {[1..k -> S] : k \in 0..n}

\* a file: readable with a text, or one open()/read fails on
Readable(t) == [readable |-> TRUE, text |-> t]
Unreadable == [readable |-> FALSE, text |-> <<>>]

(***************************************************************************)
(* Optional[List[str]]                                                     *)
(***************************************************************************)
Unset == [tag |-> "unset", list |-> <<>>]
None == [tag |-> "None", list |-> <<>>]
Some(l) == [tag |-> "list", list |-> l]

(***************************************************************************)
(* Log sink                                                                *)
(***************************************************************************)
LogTypes == {"INFO", "DEBUG", "WARNING", "ERROR", "CRITICAL", "LINE"}

\* numeric severities of the logging module
LevelNo(level) ==
    CASE level = "DEBUG" -> 10
      [] level = "INFO" -> 20
      [] level = "WARNING" -> 30
      [] level = "ERROR" -> 40
      [] level = "CRITICAL" -> 50

\* logging.basicConfig(level=logging.INFO)
RootLevel == "INFO"

\* '=' * 80
RuleWidth == 80

\* logging.<level>(message) on the root logger: a record below the root level
\* is dropped; a record the handler fails to emit is lost (handleError).
LogEmit(l, level, message, outcome) ==
    IF LevelNo(level) >= LevelNo(RootLevel) /\ outcome = "ok"
    THEN Append(l, [level |-> level, msg |-> message])
    ELSE l

\* write_log(type, message): the log after the call
WriteLog(l, type, message, outcome) ==
    IF outcome = "str_raises" THEN l
    ELSE IF type \in {"INFO", "DEBUG", "WARNING", "ERROR", "CRITICAL"}
         THEN LogEmit(l, type, message, outcome)
    ELSE IF type = "LINE"
         THEN LogEmit(l, "INFO", <<"rule", "=", RuleWidth>>, outcome)
    ELSE l

\* write_log without its try/except: only the handler's failures stay inside
SwallowedBySink_NoTry == {"emit_fails"}

\* failures that stay inside write_log: str(message) raising is caught by its
\* except clause, a handler failure by logging's handleError
SwallowedBySink == {"str_raises", "emit_fails"}

\* write_log(type, message): whether an exception leaves the call
WriteLogRaises(type, message, outcome) ==
    outcome # "ok" /\ outcome \notin SwallowedBySink

\* format_exception_info(Exception, inst): one ERROR record with the details
FormatExceptionInfo(l, excName) ==
    WriteLog(l, "ERROR", <<"exception info", excName>>, "ok")

(***************************************************************************)
(* List loader                                                             *)
(***************************************************************************)
\* [line.strip() for line in file if line.strip()]
StrippedLines(t) ==
    LET lines == FileLines(t)
        kept == SelectSeq(lines, LAMBDA line : Strip(line) # <<>>)
    IN  [k \in 1..Len(kept) |-> Strip(kept[k])]

\* read_email_list that logs only its own message, without the exception details
ReadEmailList_NoDetails(l, path, file) ==
    IF file.readable
    THEN [value |-> Some(StrippedLines(file.text)), log |-> l]
    ELSE [value |-> None,
          log |-> WriteLog(l, "ERROR", <<"Error reading email list from", path>>, "ok")]

\* read_email_list(file_path): the value returned and the log afterwards
ReadEmailList(l, path, file) ==
    IF file.readable
    THEN [value |-> Some(StrippedLines(file.text)), log |-> l]
    ELSE [value |-> None,
          log |-> WriteLog(FormatExceptionInfo(l, "OSError"), "ERROR",
                           <<"Error reading email list from", path>>, "ok")]

(***************************************************************************)
(* Mail transport                                                          *)
(***************************************************************************)
\* the steps of send_email's try block, in program order
StepOrder == <<"message", "connect", "starttls", "login", "send_message", "quit">>

\* where a send can fail: nowhere, or at one of the steps
FailPoints == {"none"} \cup {StepOrder[k] : k \in 1..Len(StepOrder)}

StepIndex(step) == CHOOSE k \in 1..Len(StepOrder) : StepOrder[k] = step

\* the steps send_email attempts when the failure (if any) is at failAt
Attempted(failAt) ==
    IF failAt = "none" THEN StepOrder ELSE SubSeq(StepOrder, 1, StepIndex(failAt))

\* a session that is torn down only when the with-block ends without error
SessionEvents_NoTeardownOnError(failAt) ==
    LET att == SelectSeq(Attempted(failAt), LAMBDA st : st # "message")
    IN  IF failAt \in {"message", "connect"} THEN <<>>
        ELSE IF failAt \in {"none", "quit"} THEN Append(att, "close")
        ELSE att

\* what the SMTP server sees of one call: the session steps attempted inside
\* the with-block, then what leaving the block does once the connection
\* exists, on every path: QUIT, and the close of the socket
SessionEvents(failAt) ==
    LET att == SelectSeq(Attempted(failAt), LAMBDA st : st # "message")
    IN  IF failAt \in {"message", "connect"} THEN <<>>
        ELSE IF failAt \in {"none", "quit"} THEN Append(att, "close")
        ELSE att \o <<"quit", "close">>

\* the except clause not covering the session's teardown
CaughtSteps_NotQuit == {StepOrder[k] : k \in 1..Len(StepOrder)} \ {"quit"}

\* the steps whose exceptions send_email's except clause catches
CaughtSteps == {StepOrder[k] : k \in 1..Len(StepOrder)}

\* send_email that leaves the success record to its caller
SendEmail_NoSuccessLog(l, to, subject, body, failAt) ==
    IF failAt = "none"
    THEN [ok |-> TRUE, raised |-> FALSE, log |-> l]
    ELSE IF failAt \in CaughtSteps
    THEN [ok |-> FALSE, raised |-> FALSE,
          log |-> WriteLog(FormatExceptionInfo(l, failAt), "ERROR",
                           <<"Error sending email to", to>>, "ok")]
    ELSE [ok |-> FALSE, raised |-> TRUE, log |-> l]

\* send_email(sender, password, recipient, subject, body)
SendEmail(l, to, subject, body, failAt) ==
    IF failAt = "none"
    THEN [ok |-> TRUE, raised |-> FALSE,
          log |-> WriteLog(l, "INFO", <<"Email sent successfully to", to>>, "ok")]
    ELSE IF failAt \in CaughtSteps
    THEN [ok |-> FALSE, raised |-> FALSE,
          log |-> WriteLog(FormatExceptionInfo(l, failAt), "ERROR",
                           <<"Error sending email to", to>>, "ok")]
    ELSE [ok |-> FALSE, raised |-> TRUE, log |-> l]

(***************************************************************************)
(* Batch dispatcher: main()                                                *)
(***************************************************************************)
confirmed_subject == "See you this Friday at KnightHacks!"
confirmed_body == "confirmed_body"
accepted_subject == "Your Knight Hacks Status: Withdrawn"
accepted_body == "accepted_body"

Running == <<>>
Exited(code) == <<code>>

\* main's except clause: the exception details, a CRITICAL record
MainHandler(l, excName) ==
    WriteLog(FormatExceptionInfo(l, excName), "CRITICAL",
             <<"Unhandled exception in main function. Exiting.">>, "ok")

\* the record kept of one send_email invocation
SendRecord(to, subject, body, failAt, r) ==
    [to |-> to, subject |-> subject, body |-> body, failAt |-> failAt,
     ok |-> r.ok, raised |-> r.raised, events |-> SessionEvents(failAt),
     logStart |-> Len(log) + 1]

\* a loop body that logs a failed send at ERROR level
LoopBody_FailureAsError(to, subject, body, failAt, sentMsg, failedMsg) ==
    LET r == SendEmail(log, to, subject, body, failAt)
    IN  /\ sends' = Append(sends, SendRecord(to, subject, body, failAt, r))
        /\ IF r.raised
           THEN /\ log' = MainHandler(r.log, failAt)
                /\ exitStatus' = Exited(1)
           ELSE /\ log' = IF r.ok
                          THEN WriteLog(r.log, "INFO", <<sentMsg, to>>, "ok")
                          ELSE WriteLog(r.log, "ERROR", <<failedMsg, to>>, "ok")
                /\ exitStatus' = exitStatus

\* one iteration of a send loop: the call, then the INFO or WARNING record;
\* an exception leaving the call lands in main's except clause
LoopBody(to, subject, body, failAt, sentMsg, failedMsg) ==
    LET r == SendEmail(log, to, subject, body, failAt)
    IN  /\ sends' = Append(sends, SendRecord(to, subject, body, failAt, r))
        /\ IF r.raised
           THEN /\ log' = MainHandler(r.log, failAt)
                /\ exitStatus' = Exited(1)
           ELSE /\ log' = IF r.ok
                          THEN WriteLog(r.log, "INFO", <<sentMsg, to>>, "ok")
                          ELSE WriteLog(r.log, "WARNING", <<failedMsg, to>>, "ok")
                /\ exitStatus' = exitStatus

\* parser.parse_args(): a rejected command line exits 2, -h exits 0
ParseArgs ==
    /\ exitStatus = Running
    /\ phase = "INIT"
    /\ ~parsed
    /\ parsed' = (argv = "valid")
    /\ exitStatus' = CASE argv = "valid" -> Running
                       [] argv = "usage_error" -> Exited(2)
                       [] argv = "help" -> Exited(0)
    /\ UNCHANGED <<argv, fileConfirmed, fileAccepted, confirmed_emails,
                   accepted_emails, phase, ci, ai, sends, log, calls>>

\* confirmed_emails = read_email_list(args.confirmed_list)
LoadConfirmed ==
    /\ exitStatus = Running
    /\ parsed
    /\ confirmed_emails = Unset
    /\ LET r == ReadEmailList(log, "confirmed_list", fileConfirmed)
       IN  /\ confirmed_emails' = r.value
           /\ log' = r.log
    /\ UNCHANGED <<argv, fileConfirmed, fileAccepted, parsed, accepted_emails,
                   phase, ci, ai, sends, exitStatus, calls>>

\* the second load skipped once the first has failed
LoadAccepted_ShortCircuit ==
    /\ exitStatus = Running
    /\ confirmed_emails # Unset
    /\ accepted_emails = Unset
    /\ LET r == IF confirmed_emails = None
                THEN [value |-> None, log |-> log]
                ELSE ReadEmailList(log, "accepted_list", fileAccepted)
       IN  /\ accepted_emails' = r.value
           /\ log' = r.log
    /\ phase' = "LISTS_LOADED"
    /\ UNCHANGED <<argv, fileConfirmed, fileAccepted, parsed, confirmed_emails,
                   ci, ai, sends, exitStatus, calls>>

\* accepted_emails = read_email_list(args.accepted_list)
LoadAccepted ==
    /\ exitStatus = Running
    /\ confirmed_emails # Unset
    /\ accepted_emails = Unset
    /\ LET r == ReadEmailList(log, "accepted_list", fileAccepted)
       IN  /\ accepted_emails' = r.value
           /\ log' = r.log
    /\ phase' = "LISTS_LOADED"
    /\ UNCHANGED <<argv, fileConfirmed, fileAccepted, parsed, confirmed_emails,
                   ci, ai, sends, exitStatus, calls>>

\* the check with "and" in place of "or"
ListsMissing_Both == confirmed_emails = None /\ accepted_emails = None

\* if confirmed_emails is None or accepted_emails is None
ListsMissing == confirmed_emails = None \/ accepted_emails = None

\* the abort exiting with status 0
FailedToReadLists_ExitsZero ==
    /\ exitStatus = Running
    /\ phase = "LISTS_LOADED"
    /\ confirmed_emails = None \/ accepted_emails = None
    /\ log' = WriteLog(log, "ERROR", <<"Failed to read email lists. Exiting.">>, "ok")
    /\ phase' = "FATAL"
    /\ exitStatus' = Exited(0)
    /\ UNCHANGED <<argv, fileConfirmed, fileAccepted, parsed, confirmed_emails,
                   accepted_emails, ci, ai, sends, calls>>

\* the abort: write_log("ERROR", ...); sys.exit(1)
FailedToReadLists ==
    /\ exitStatus = Running
    /\ phase = "LISTS_LOADED"
    /\ ListsMissing
    /\ log' = WriteLog(log, "ERROR", <<"Failed to read email lists. Exiting.">>, "ok")
    /\ phase' = "FATAL"
    /\ exitStatus' = Exited(1)
    /\ UNCHANGED <<argv, fileConfirmed, fileAccepted, parsed, confirmed_emails,
                   accepted_emails, ci, ai, sends, calls>>

\* both lists are present: fall through to the first loop
StartConfirmedLoop ==
    /\ exitStatus = Running
    /\ phase = "LISTS_LOADED"
    /\ ~ListsMissing
    /\ phase' = "SENDING_CONFIRMED"
    /\ UNCHANGED <<argv, fileConfirmed, fileAccepted, parsed, confirmed_emails,
                   accepted_emails, ci, ai, sends, log, exitStatus, calls>>

\* the first loop leaving at the first failed send
SendConfirmed_StopsOnFailure ==
    /\ exitStatus = Running
    /\ phase = "SENDING_CONFIRMED"
    /\ ci < Len(confirmed_emails.list)
    /\ \E failAt \in FailPoints :
          /\ LoopBody(confirmed_emails.list[ci + 1], confirmed_subject, confirmed_body,
                      failAt, "Sent confirmation email to",
                      "Failed to send confirmation email to")
          /\ ci' = IF failAt = "none" THEN ci + 1 ELSE Len(confirmed_emails.list)
    /\ UNCHANGED <<argv, fileConfirmed, fileAccepted, parsed, confirmed_emails,
                   accepted_emails, phase, ai, calls>>

\* for email in confirmed_emails: one iteration
SendConfirmed ==
    /\ exitStatus = Running
    /\ phase = "SENDING_CONFIRMED"
    /\ ci < Len(confirmed_emails.list)
    /\ \E failAt \in FailPoints :
          LoopBody(confirmed_emails.list[ci + 1], confirmed_subject, confirmed_body,
                   failAt, "Sent confirmation email to",
                   "Failed to send confirmation email to")
    /\ ci' = ci + 1
    /\ UNCHANGED <<argv, fileConfirmed, fileAccepted, parsed, confirmed_emails,
                   accepted_emails, phase, ai, calls>>

\* the first loop's iterator is exhausted
EndConfirmedLoop ==
    /\ exitStatus = Running
    /\ phase = "SENDING_CONFIRMED"
    /\ ci = Len(confirmed_emails.list)
    /\ phase' = "SENDING_ACCEPTED"
    /\ UNCHANGED <<argv, fileConfirmed, fileAccepted, parsed, confirmed_emails,
                   accepted_emails, ci, ai, sends, log, exitStatus, calls>>

\* the second loop walking its list from the end
SendAccepted_Reversed ==
    /\ exitStatus = Running
    /\ phase = "SENDING_ACCEPTED"
    /\ ai < Len(accepted_emails.list)
    /\ \E failAt \in FailPoints :
          LoopBody(accepted_emails.list[Len(accepted_emails.list) - ai],
                   accepted_subject, accepted_body,
                   failAt, "Sent acceptance email to",
                   "Failed to send acceptance email to")
    /\ ai' = ai + 1
    /\ UNCHANGED <<argv, fileConfirmed, fileAccepted, parsed, confirmed_emails,
                   accepted_emails, phase, ci, calls>>

\* for email in accepted_emails: one iteration
SendAccepted ==
    /\ exitStatus = Running
    /\ phase = "SENDING_ACCEPTED"
    /\ ai < Len(accepted_emails.list)
    /\ \E failAt \in FailPoints :
          LoopBody(accepted_emails.list[ai + 1], accepted_subject, accepted_body,
                   failAt, "Sent acceptance email to",
                   "Failed to send acceptance email to")
    /\ ai' = ai + 1
    /\ UNCHANGED <<argv, fileConfirmed, fileAccepted, parsed, confirmed_emails,
                   accepted_emails, phase, ci, calls>>

\* the end of main without the completion record
Complete_NoLog ==
    /\ exitStatus = Running
    /\ phase = "SENDING_ACCEPTED"
    /\ ai = Len(accepted_emails.list)
    /\ phase' = "DONE"
    /\ exitStatus' = Exited(0)
    /\ UNCHANGED <<argv, fileConfirmed, fileAccepted, parsed, confirmed_emails,
                   accepted_emails, ci, ai, sends, log, calls>>

\* the second loop is exhausted: the completion record, main returns, sys.exit(0)
Complete ==
    /\ exitStatus = Running
    /\ phase = "SENDING_ACCEPTED"
    /\ ai = Len(accepted_emails.list)
    /\ log' = WriteLog(log, "INFO", <<"Email sending process completed">>, "ok")
    /\ phase' = "DONE"
    /\ exitStatus' = Exited(0)
    /\ UNCHANGED <<argv, fileConfirmed, fileAccepted, parsed, confirmed_emails,
                   accepted_emails, ci, ai, sends, calls>>

\* an exception no callee catches is raised inside main's try block
UnexpectedException ==
    /\ exitStatus = Running
    /\ log' = MainHandler(log, "Exception")
    /\ exitStatus' = Exited(1)
    /\ UNCHANGED <<argv, fileConfirmed, fileAccepted, parsed, confirmed_emails,
                   accepted_emails, phase, ci, ai, sends, calls>>

(***************************************************************************)
(* Dispatcher runs                                                         *)
(***************************************************************************)
\* the lines of the list files of a dispatcher run: two addresses, a blank line
MainLines == {<<"a">>, <<"b">>, <<>>}

ListFiles ==
    {Unreadable} \cup {Readable(WriteFile(ls)) : ls \in SeqsUpTo(MainLines, MaxLines)}

Start ==
    /\ parsed = FALSE
    /\ confirmed_emails = Unset
    /\ accepted_emails = Unset
    /\ phase = "INIT"
    /\ ci = 0
    /\ ai = 0
    /\ sends = <<>>
    /\ log = <<>>
    /\ exitStatus = Running
    /\ calls = <<>>

Init ==
    /\ argv \in {"valid", "usage_error", "help"}
    /\ fileConfirmed \in ListFiles
    /\ fileAccepted \in ListFiles
    /\ Len(FileLines(fileConfirmed.text)) + Len(FileLines(fileAccepted.text)) <= MaxLines
    /\ Start

Next ==
    \/ ParseArgs
    \/ LoadConfirmed
    \/ LoadAccepted
    \/ FailedToReadLists
    \/ StartConfirmedLoop
    \/ SendConfirmed
    \/ EndConfirmedLoop
    \/ SendAccepted
    \/ Complete
    \/ UnexpectedException

Spec == Init /\ [][Next]_vars

\* the runs followed to their end: list files of at most MaxFairLines lines
FairInit ==
    /\ Init
    /\ Len(FileLines(fileConfirmed.text)) + Len(FileLines(fileAccepted.text))
          <= MaxFairLines

\* the program is sequential and every call returns: whenever a step of the
\* run is possible, one is taken
FairSpec == FairInit /\ [][Next]_vars /\ WF_vars(Next)

(***************************************************************************)
(* Loader runs: read_email_list on every text up to MaxText characters     *)
(***************************************************************************)
LoaderChars == {"a", "b", " ", "\n"}

InitLoader ==
    /\ argv = "valid"
    /\ fileConfirmed \in {Unreadable} \cup
                         {Readable(t) : t \in SeqsUpTo(LoaderChars, MaxText)}
    /\ fileAccepted = Unreadable
    /\ Start

NextLoader == ParseArgs \/ LoadConfirmed

SpecLoader == InitLoader /\ [][NextLoader]_vars

(***************************************************************************)
(* Sink runs: direct write_log calls with every tag and outcome            *)
(***************************************************************************)
\* the tags write_log handles, and one it does not
CallTypes == LogTypes \cup {"TRACE"}

\* how a write can go: written, str(message) raises, the handler fails
WriteOutcomes == {"ok", "str_raises", "emit_fails"}

WriteLogCall ==
    /\ Len(calls) < MaxCalls
    /\ \E type \in CallTypes, outcome \in WriteOutcomes :
          LET message == <<"text", type>>
          IN  /\ log' = WriteLog(log, type, message, outcome)
              /\ calls' = Append(calls,
                     [type |-> type, message |-> message, outcome |-> outcome,
                      before |-> Len(log),
                      after |-> Len(WriteLog(log, type, message, outcome)),
                      raised |-> WriteLogRaises(type, message, outcome)])
    /\ UNCHANGED <<argv, fileConfirmed, fileAccepted, parsed, confirmed_emails,
                   accepted_emails, phase, ci, ai, sends, exitStatus>>

InitSink ==
    /\ argv = "valid"
    /\ fileConfirmed = Unreadable
    /\ fileAccepted = Unreadable
    /\ Start

NextSink == WriteLogCall

SpecSink == InitSink /\ [][NextSink]_vars

(***************************************************************************)
(* Properties                                                              *)
(***************************************************************************)
Count(seq, Test(_)) == Len(SelectSeq(seq, Test))

IsPrefix(s, t) == Len(s) <= Len(t) /\ SubSeq(t, 1, Len(s)) = s

BothLoaded == confirmed_emails.tag = "list" /\ accepted_emails.tag = "list"

\* what each send_email invocation was given: recipient, subject, body
Attempts == [k \in 1..Len(sends) |-> <<sends[k].to, sends[k].subject, sends[k].body>>]

\* one invocation per confirmed address, then one per accepted address
Expected ==
    [k \in 1..Len(confirmed_emails.list) |->
        <<confirmed_emails.list[k], confirmed_subject, confirmed_body>>]
    \o [k \in 1..Len(accepted_emails.list) |->
        <<accepted_emails.list[k], accepted_subject, accepted_body>>]

LoopsFinished ==
    /\ phase \in {"SENDING_ACCEPTED", "DONE"}
    /\ ai = Len(accepted_emails.list)

\* C1: when both lists load, the send_email invocations made so far are
\* always the first ci + ai entries of "each confirmed address once with the
\* confirmed subject/body, then each accepted address once with the accepted
\* subject/body", whatever the outcomes of the sends were, and once both
\* loops have run to the end they are all N + M of them.
C1_OneSendPerAddress ==
    BothLoaded =>
        /\ Len(sends) = ci + ai
        /\ IsPrefix(Attempts, Expected)
        /\ LoopsFinished => Attempts = Expected

\* a finished run of three sends whose first send failed: a later address of
\* the same list and one of the other list were still attempted
C1_Witness ==
    /\ phase = "DONE"
    /\ Len(confirmed_emails.list) = 2
    /\ Len(accepted_emails.list) = 1
    /\ Len(sends) = 3
    /\ ~sends[1].ok
    /\ sends[2].ok
    /\ ~sends[3].ok

ReadFailed == confirmed_emails = None \/ accepted_emails = None

\* C2: if read_email_list returned None for either file, no send_email
\* invocation is ever made, the run never enters a send loop and the only
\* status the process exits with is 1.
C2_LoadFailureSendsNothing ==
    ReadFailed =>
        /\ sends = <<>>
        /\ phase \in {"INIT", "LISTS_LOADED", "FATAL"}
        /\ exitStatus \in {Running, Exited(1)}
        /\ phase = "FATAL" => exitStatus = Exited(1)

\* the confirmed list failed to load, the accepted list holds an address, and
\* the run has aborted
C2_Witness ==
    /\ confirmed_emails = None
    /\ accepted_emails.tag = "list"
    /\ Len(accepted_emails.list) >= 1
    /\ phase = "FATAL"
    /\ exitStatus = Exited(1)

HasCritical == \E k \in 1..Len(log) : log[k].level = "CRITICAL"

\* C3 as stated: the exit status is 0 when the loops ran to the end, 1 when a
\* list failed to load or an exception reached main's handler, and nothing
\* else.
C3_Original ==
    exitStatus # Running =>
        /\ exitStatus \in {Exited(0), Exited(1)}
        /\ phase = "DONE" => exitStatus = Exited(0)
        /\ (ReadFailed \/ HasCritical) => exitStatus = Exited(1)

\* C3 amended: the exit status is 0 when both loops ran to the end (for every
\* combination of send outcomes), 1 when a list failed to load or an
\* exception reached main's handler, 2 exactly when argparse rejected the
\* command line, 0 also for -h; 0 is produced in no other case, 1 in no other
\* case, and no status besides 0, 1 and 2 is produced.
C3_ExitStatus ==
    exitStatus # Running =>
        /\ exitStatus \in {Exited(0), Exited(1), Exited(2)}
        /\ phase = "DONE" => exitStatus = Exited(0)
        /\ (ReadFailed \/ HasCritical) => exitStatus = Exited(1)
        /\ exitStatus = Exited(2) => argv = "usage_error" /\ ~parsed /\ ~HasCritical
        /\ exitStatus = Exited(0) => phase = "DONE" \/ (argv = "help" /\ ~parsed)
        /\ exitStatus = Exited(1) => phase = "FATAL" \/ HasCritical
        /\ argv # "valid" => confirmed_emails = Unset /\ accepted_emails = Unset

\* both lists loaded, two or more sends, every one failed, and the run exited 0
C3_Witness ==
    /\ exitStatus = Exited(0)
    /\ phase = "DONE"
    /\ Len(sends) >= 2
    /\ \A k \in 1..Len(sends) : ~sends[k].ok

\* the log written from the start of the k-th send_email call to the start of
\* the next one (to the end of the log for the last call), the run's
\* completion record aside
SendWindow(k) ==
    LET last == IF k < Len(sends) THEN sends[k + 1].logStart - 1 ELSE Len(log)
    IN  SelectSeq(SubSeq(log, sends[k].logStart, last),
                  LAMBDA rec : rec.msg[1] # "Email sending process completed")

InfoIn(w) == Count(w, LAMBDA rec : rec.level = "INFO")
WarningIn(w) == Count(w, LAMBDA rec : rec.level = "WARNING")
ErrorIn(w) == Count(w, LAMBDA rec : rec.level = "ERROR")

\* C4 as stated: each send leaves exactly one entry, INFO for a success and
\* WARNING for a failure, in its window of the log.
C4_Original ==
    \A k \in 1..Len(sends) :
        /\ sends[k].ok => InfoIn(SendWindow(k)) = 1 /\ WarningIn(SendWindow(k)) = 0
        /\ ~sends[k].ok => WarningIn(SendWindow(k)) = 1 /\ InfoIn(SendWindow(k)) = 0

\* C4 amended: a successful send leaves exactly two INFO entries (send_email's
\* "Email sent successfully to", then main's "Sent ... email to") and no
\* WARNING entry; a failed send leaves exactly one WARNING entry and no INFO
\* entry, after the two ERROR entries send_email wrote.
C4_LogEntriesPerSend ==
    \A k \in 1..Len(sends) :
        LET w == SendWindow(k)
        IN  /\ sends[k].ok =>
                /\ InfoIn(w) = 2 /\ WarningIn(w) = 0
                /\ w[1].msg = <<"Email sent successfully to", sends[k].to>>
                /\ w[2].msg[2] = sends[k].to
            /\ ~sends[k].ok =>
                /\ WarningIn(w) = 1 /\ InfoIn(w) = 0
                /\ w[1].level = "ERROR" /\ w[2].level = "ERROR"
                /\ w[3].level = "WARNING" /\ w[3].msg[2] = sends[k].to

\* a successful send followed by a failed one, both logged
C4_Witness ==
    /\ Len(sends) >= 2
    /\ sends[1].ok
    /\ ~sends[2].ok
    /\ Len(log) >= 5

AcceptedFailsOnly == fileConfirmed.readable /\ ~fileAccepted.readable

\* C5 as stated: when only the accepted list cannot be opened, the aborted run
\* has logged exactly one ERROR record, made no send and exited 1.
C5_Original ==
    (AcceptedFailsOnly /\ phase = "FATAL") =>
        /\ ErrorIn(log) = 1
        /\ sends = <<>>
        /\ exitStatus = Exited(1)

\* C5 amended: when only the accepted list cannot be opened, the aborted run
\* has logged exactly three records, all at ERROR level: the exception
\* details from format_exception_info, read_email_list's "Error reading email
\* list from <accepted path>", and one "Failed to read email lists. Exiting.";
\* it has made no send and exited 1.
C5_LoadFailureLog ==
    (AcceptedFailsOnly /\ phase = "FATAL") =>
        /\ Len(log) = 3
        /\ ErrorIn(log) = 3
        /\ log[1].msg[1] = "exception info"
        /\ log[2].msg = <<"Error reading email list from", "accepted_list">>
        /\ log[3].msg = <<"Failed to read email lists. Exiting.">>
        /\ sends = <<>>
        /\ exitStatus = Exited(1)

\* the confirmed list loaded with an address, the accepted list did not, and
\* the run has aborted
C5_Witness ==
    /\ AcceptedFailsOnly
    /\ phase = "FATAL"
    /\ Len(confirmed_emails.list) >= 1
    /\ accepted_emails = None

\* the lines of a text without their terminators: the pieces between "\n"s
Breaks(t) == {k \in 1..Len(t) : t[k] = "\n"}

RawLines(t) ==
    LET ends == Breaks(t) \cup {Len(t) + 1}
        starts == {1} \cup {k + 1 : k \in Breaks(t)}
        EndOf(b) == CHOOSE e \in ends : e >= b /\ \A f \in ends : f >= b => e <= f
        Nth(n) == CHOOSE b \in starts : Cardinality({c \in starts : c < b}) = n - 1
    IN  [n \in 1..Cardinality(starts) |-> SubSeq(t, Nth(n), EndOf(Nth(n)) - 1)]

IsBlank(line) == \A k \in 1..Len(line) : line[k] \in Whitespace

\* a line with its leading and trailing whitespace removed, by position
Trimmed(line) ==
    LET inked == {k \in 1..Len(line) : line[k] \notin Whitespace}
        first == CHOOSE k \in inked : \A m \in inked : k <= m
        last == CHOOSE k \in inked : \A m \in inked : k >= m
    IN  IF inked = {} THEN <<>> ELSE SubSeq(line, first, last)

NonBlankLines(t) == SelectSeq(RawLines(t), LAMBDA line : ~IsBlank(line))

\* addresses as a file can hold them one per line: non-blank, no line break
AddressesUpTo(n) == {a \in SeqsUpTo(LoaderChars \ {"\n"}, n) : ~IsBlank(a)}

\* the sequences of addresses whose file has at most MaxText characters
AddressLists ==
    UNION {{ws \in [1..k -> AddressesUpTo(MaxText + 1 - 2 * k)] :
               Len(WriteFile(ws)) <= MaxText} : k \in 0..(MaxText \div 2)}

\* each such sequence with the file written from it
WrittenFiles == {<<ws, WriteFile(ws)>> : ws \in AddressLists}

\* the sequences whose addresses have nothing to trim
CleanFiles == {p \in WrittenFiles : \A k \in 1..Len(p[1]) : Trimmed(p[1][k]) = p[1][k]}

Loaded == confirmed_emails.tag = "list"

\* C6 as stated: read_email_list returns the non-blank lines of the file as
\* they are, in order, and a file written from any sequence of non-blank
\* addresses loads as that sequence.
C6_Original ==
    Loaded =>
        /\ confirmed_emails.list = NonBlankLines(fileConfirmed.text)
        /\ \A p \in WrittenFiles :
              fileConfirmed.text = p[2] => confirmed_emails.list = p[1]

\* C6 amended: read_email_list returns, in order and with duplicates kept,
\* each line that is non-empty after trimming, with its leading and trailing
\* whitespace removed and nothing else changed; a file written from a
\* sequence of non-blank addresses that contain no line break and have no
\* leading or trailing whitespace loads as that sequence; None is returned
\* only for a file that cannot be read.
C6_LoaderReturnsTrimmedLines ==
    /\ Loaded =>
        /\ fileConfirmed.readable
        /\ LET kept == NonBlankLines(fileConfirmed.text)
           IN  confirmed_emails.list = [k \in 1..Len(kept) |-> Trimmed(kept[k])]
        /\ \A p \in CleanFiles :
              fileConfirmed.text = p[2] => confirmed_emails.list = p[1]
    /\ confirmed_emails = None => ~fileConfirmed.readable

\* a padded line, a blank line and a bare line were loaded as two addresses
C6_Witness ==
    /\ Loaded
    /\ fileConfirmed.text = <<" ", "a", "\n", "\n", "b">>
    /\ confirmed_emails.list = <<<<"a">>, <<"b">>>>

\* C7: no send_email call lets an exception out; a call returned True exactly
\* when no step failed, and then every step of the session ran, send_message
\* included, and the session was closed; a call with a failure at any step
\* (message construction, connect, STARTTLS, login, send_message, teardown)
\* returned False after logging "Error sending email to <recipient>" at
\* ERROR level.
C7_SendEmailNeverRaises ==
    \A k \in 1..Len(sends) :
        LET w == SendWindow(k)
        IN  /\ ~sends[k].raised
            /\ sends[k].ok <=> sends[k].failAt = "none"
            /\ sends[k].ok =>
                  sends[k].events = <<"connect", "starttls", "login",
                                      "send_message", "quit", "close">>
            /\ ~sends[k].ok =>
                  /\ Len(w) >= 2
                  /\ w[2] = [level |-> "ERROR",
                             msg |-> <<"Error sending email to", sends[k].to>>]

\* three calls: one failed building the message, one failed at teardown, one
\* succeeded
C7_Witness ==
    /\ Len(sends) = 3
    /\ sends[1].failAt = "message"
    /\ sends[2].failAt = "quit"
    /\ sends[3].failAt = "none"
    /\ sends[3].ok

FailedSends == Count(sends, LAMBDA sd : ~sd.ok)

\* a CRITICAL record that main's handler wrote for a send failure
CriticalFromSend ==
    \E k \in 2..Len(log) :
        /\ log[k].level = "CRITICAL"
        /\ log[k - 1].msg[1] = "exception info"
        /\ log[k - 1].msg[2] \in FailPoints

\* C8: the log holds exactly one WARNING entry per failed send; a send
\* failure never leads to a CRITICAL entry; a run that finished its loops has
\* no CRITICAL entry and exit status 0, also when every send failed.
C8_WarningPerFailedSend ==
    /\ WarningIn(log) = FailedSends
    /\ ~CriticalFromSend
    /\ phase = "DONE" => ~HasCritical /\ exitStatus = Exited(0)

\* one address in each list, both sends failed, two WARNING entries, exit 0
C8_Witness ==
    /\ phase = "DONE"
    /\ Len(confirmed_emails.list) = 1
    /\ Len(accepted_emails.list) = 1
    /\ FailedSends = 2
    /\ WarningIn(log) = 2
    /\ exitStatus = Exited(0)

\* the level write_log hands a tag's record to
LevelOf(type) == IF type = "LINE" THEN "INFO" ELSE type

\* the message of the record a call appends
TextOf(c) == IF c.type = "LINE" THEN <<"rule", "=", 80>> ELSE c.message

AppendedOne(c) ==
    /\ c.after = c.before + 1
    /\ log[c.after] = [level |-> LevelOf(c.type), msg |-> TextOf(c)]

\* C9 as stated: every write_log call with one of the six tags whose write
\* does not fail appends exactly one record at that level (LINE: an INFO rule
\* of 80 "="), and no call raises.
C9_Original ==
    \A k \in 1..Len(calls) :
        /\ ~calls[k].raised
        /\ (calls[k].type \in LogTypes /\ calls[k].outcome = "ok") => AppendedOne(calls[k])

\* C9 amended: a write_log call tagged INFO, WARNING, ERROR, CRITICAL or LINE
\* whose write does not fail appends exactly one record at that level (LINE:
\* an INFO rule of 80 "="); a DEBUG call appends nothing, the root logger's
\* level being INFO; a call with any other tag, or whose write fails,
\* appends nothing; no call raises.
C9_WriteLogAppendsOneRecord ==
    \A k \in 1..Len(calls) :
        LET c == calls[k]
        IN  /\ ~c.raised
            /\ (c.type \in LogTypes \ {"DEBUG"} /\ c.outcome = "ok") => AppendedOne(c)
            /\ (c.type \notin LogTypes \ {"DEBUG"} \/ c.outcome # "ok") => c.after = c.before
            /\ k < Len(calls) => calls[k + 1].before = c.after
            /\ k = Len(calls) => Len(log) = c.after

\* a LINE call that wrote its rule, a DEBUG call that wrote nothing, and a
\* WARNING call whose write failed
C9_Witness ==
    /\ Len(calls) = 3
    /\ calls[1].type = "LINE" /\ calls[1].outcome = "ok"
    /\ calls[2].type = "DEBUG" /\ calls[2].outcome = "ok"
    /\ calls[3].type = "WARNING" /\ calls[3].outcome = "str_raises"
    /\ Len(log) = 1

PhaseOrder == <<"INIT", "LISTS_LOADED", "SENDING_CONFIRMED", "SENDING_ACCEPTED", "DONE">>

\* the phase changes of the dispatcher: each phase to the next, and the abort
PhaseEdges ==
    {<<PhaseOrder[k], PhaseOrder[k + 1]>> : k \in 1..(Len(PhaseOrder) - 1)}
    \cup {<<"LISTS_LOADED", "FATAL">>}

ConfirmedSends == Count(sends, LAMBDA sd : sd.subject = confirmed_subject)
AcceptedSends == Count(sends, LAMBDA sd : sd.subject = accepted_subject)

PhaseStep ==
    /\ phase' # phase => <<phase, phase'>> \in PhaseEdges
    /\ phase' = "FATAL" /\ phase # "FATAL" => ReadFailed /\ sends = <<>>
    /\ phase \in {"DONE", "FATAL"} =>
          UNCHANGED <<phase, sends, confirmed_emails, accepted_emails>>
    /\ confirmed_emails' # confirmed_emails \/ accepted_emails' # accepted_emails =>
          phase = "INIT" /\ sends = <<>>
    /\ sends' # sends =>
          /\ Len(sends') = Len(sends) + 1
          /\ SubSeq(sends', 1, Len(sends)) = sends
          /\ phase' = phase
          /\ LET sd == sends'[Len(sends')]
             IN  \/ /\ phase = "SENDING_CONFIRMED"
                    /\ AcceptedSends = 0
                    /\ sd.subject = confirmed_subject
                    /\ sd.to = confirmed_emails.list[ConfirmedSends + 1]
                 \/ /\ phase = "SENDING_ACCEPTED"
                    /\ ConfirmedSends = Len(confirmed_emails.list)
                    /\ sd.subject = accepted_subject
                    /\ sd.to = accepted_emails.list[AcceptedSends + 1]

\* C10: the phase only moves INIT -> LISTS_LOADED -> SENDING_CONFIRMED ->
\* SENDING_ACCEPTED -> DONE, or LISTS_LOADED -> FATAL when a list failed to
\* load and nothing was sent; a list is loaded only in INIT; a send happens
\* only in a sending phase, to the next address of that phase's list in file
\* order, the confirmed list being finished before the first accepted send;
\* nothing is sent or loaded and the phase stays once it is DONE or FATAL.
C10_PhasesInOrder == [][PhaseStep]_vars

\* a finished run that sent to two confirmed addresses, then an accepted one
C10_Witness ==
    /\ phase = "DONE"
    /\ Len(sends) = 3
    /\ sends[1].to = <<"a">> /\ sends[2].to = <<"b">>
    /\ sends[2].subject = confirmed_subject
    /\ sends[3].subject = accepted_subject

\* the protocol steps of a session, in the only order allowed
SessionOrder == <<"connect", "starttls", "login", "send_message">>

ProtocolSteps(ev) == SelectSeq(ev, LAMBDA st : st \notin {"quit", "close"})

\* C11: every send_email call that gets a connection has exactly one session
\* of its own: its first event is the connect, its last event is the close,
\* and it connects and closes nowhere in between, whether the call succeeds
\* or fails at STARTTLS, login, send_message or teardown; so each session is
\* closed before the call returns, none is carried into the next call, and
\* at most one is open at any time.  The steps of a session are a prefix of
\* connect, STARTTLS, login, send_message, with login only after STARTTLS
\* went through and send_message only after login went through.  A call that
\* fails before the connection exists has no session.
C11_OneSessionPerCall ==
    \A k \in 1..Len(sends) :
        LET ev == sends[k].events
            Has(step) == \E m \in 1..Len(ev) : ev[m] = step
        IN  /\ sends[k].failAt \in {"message", "connect"} <=> ev = <<>>
            /\ ev # <<>> =>
                  /\ ev[1] = "connect"
                  /\ ev[Len(ev)] = "close"
                  /\ \A m \in 2..Len(ev) : ev[m] # "connect"
                  /\ \A m \in 1..(Len(ev) - 1) : ev[m] # "close"
                  /\ IsPrefix(ProtocolSteps(ev), SessionOrder)
                  /\ Has("login") => sends[k].failAt # "starttls"
                  /\ Has("send_message") =>
                        sends[k].failAt \in {"send_message", "quit", "none"}
            /\ sends[k].ok => ProtocolSteps(ev) = SessionOrder

\* three calls: one failed at login, one at send_message, one succeeded; each
\* had its own session, closed before the next was opened
C11_Witness ==
    /\ Len(sends) = 3
    /\ sends[1].failAt = "login"
    /\ sends[2].failAt = "send_message"
    /\ sends[3].ok
    /\ \A k \in 1..3 : sends[k].events[Len(sends[k].events)] = "close"

HasEntry(text) == \E k \in 1..Len(log) : log[k].msg[1] = text

EntriesOf(text) == Count(log, LAMBDA rec : rec.msg[1] = text)

Completion == "Email sending process completed"
LoadFailure == "Failed to read email lists. Exiting."

\* the run ended by logging completion after the last send of both lists
EndedComplete ==
    /\ exitStatus = Exited(0)
    /\ phase = "DONE"
    /\ BothLoaded
    /\ Attempts = Expected
    /\ EntriesOf(Completion) = 1
    /\ log[Len(log)].msg[1] = Completion
    /\ \A k \in 1..Len(sends) : sends[k].logStart < Len(log)
    /\ ~HasEntry(LoadFailure)

\* the run ended by logging the list-load failure
EndedLoadFailure ==
    /\ exitStatus = Exited(1)
    /\ phase = "FATAL"
    /\ ReadFailed
    /\ EntriesOf(LoadFailure) = 1
    /\ log[Len(log)].msg[1] = LoadFailure
    /\ sends = <<>>
    /\ ~HasEntry(Completion)

\* the run ended in the argument parser, before any list was read
EndedInParser ==
    /\ \/ argv = "usage_error" /\ exitStatus = Exited(2)
       \/ argv = "help" /\ exitStatus = Exited(0)
    /\ phase = "INIT"
    /\ confirmed_emails = Unset
    /\ log = <<>>
    /\ sends = <<>>

\* the run ended in main's except clause
EndedUnhandled ==
    /\ exitStatus = Exited(1)
    /\ phase \notin {"DONE", "FATAL"}
    /\ Len(log) >= 2
    /\ log[Len(log)].level = "CRITICAL"
    /\ ~HasEntry(Completion)
    /\ ~HasEntry(LoadFailure)

\* C12 as stated: a run that has ended has ended in one of two ways, the
\* completion entry and exit 0, or the list-load failure entry and exit 1.
C12_Original ==
    exitStatus # Running => EndedComplete \/ EndedLoadFailure

\* C12 amended: every run ends, and in exactly one of four ways: completion
\* logged after the last send of both lists and exit 0; the list-load failure
\* logged and exit 1; the argument parser ending the run before any list is
\* read (exit 2 for a rejected command line, 0 for -h); or an exception
\* reaching main's handler (CRITICAL logged, exit 1).  The completion entry
\* is logged only in the first way, is the last record of the log, and no
\* send attempt follows it.
C12_RunTerminates ==
    /\ <>(exitStatus # Running)
    /\ [](exitStatus # Running =>
            Cardinality({w \in {"complete", "load", "parser", "unhandled"} :
                CASE w = "complete" -> EndedComplete
                  [] w = "load" -> EndedLoadFailure
                  [] w = "parser" -> EndedInParser
                  [] w = "unhandled" -> EndedUnhandled}) = 1)
    /\ [](HasEntry(Completion) => EndedComplete)

\* a run of two sends, the first failed, that logged completion last and
\* exited 0
C12_Witness ==
    /\ EndedComplete
    /\ Len(sends) = 2
    /\ ~sends[1].ok
    /\ Len(log) >= 6

BothRead == confirmed_emails # Unset /\ accepted_emails # Unset

\* the position of the first "Error reading ..." entry for a path, 0 if none
ReadErrorAt(path) ==
    LET at == {k \in 1..Len(log) :
                  log[k].msg = <<"Error reading email list from", path>>}
    IN  IF at = {} THEN 0 ELSE CHOOSE k \in at : \A m \in at : k <= m

\* C13: the abort decision is taken only after both read_email_list calls
\* have returned: the run leaves INIT, and logs "Failed to read email lists.
\* Exiting.", only with both lists read, also when the confirmed list failed
\* to load; each unreadable file has its own "Error reading email list from
\* <path>" entry, confirmed before accepted, and both precede the single
\* abort entry.
C13_BothListsReadBeforeAbort ==
    /\ phase # "INIT" => BothRead
    /\ HasEntry(LoadFailure) => BothRead /\ phase = "FATAL"
    /\ accepted_emails # Unset =>
          /\ fileConfirmed.readable <=> ReadErrorAt("confirmed_list") = 0
          /\ fileAccepted.readable <=> ReadErrorAt("accepted_list") = 0
          /\ accepted_emails = None <=> ~fileAccepted.readable
    /\ (phase = "FATAL" /\ ~fileConfirmed.readable /\ ~fileAccepted.readable) =>
          /\ EntriesOf("Error reading email list from") = 2
          /\ EntriesOf(LoadFailure) = 1
          /\ ReadErrorAt("confirmed_list") < ReadErrorAt("accepted_list")
          /\ ReadErrorAt("accepted_list") < Len(log)
          /\ log[Len(log)].msg[1] = LoadFailure

\* both files unreadable: two load-failure entries with their exception
\* details, then the abort entry
C13_Witness ==
    /\ phase = "FATAL"
    /\ confirmed_emails = None
    /\ accepted_emails = None
    /\ Len(log) = 5
    /\ ReadErrorAt("confirmed_list") = 2
    /\ ReadErrorAt("accepted_list") = 4

====
